---- MODULE Spec2Model ----
(***************************************************************************)
(* A model of src/providers/databricks.ts: the Databricks chat-completion  *)
(* provider.  JavaScript values are tagged records, a string is the        *)
(* sequence of its pieces (a template literal concatenates), an object     *)
(* field that is not there reads as undefined.                             *)
(***************************************************************************)
EXTENDS Integers, Sequences, FiniteSets, TLC

VARIABLES
  modelName,      \* this.modelName
  config,         \* this.config
  env,            \* this.env, the override map given at construction
  penv,           \* process.env
  args,           \* the arguments of the function being applied
  pc,             \* where the invocation stands
  response,       \* what fetchWithCache resolved to: {data, cached}
  fetchCalls,     \* how many times fetchWithCache was called
  callbackCalls,  \* the function-tool callbacks invoked, with their argument
  pending,        \* what callApi holds across the await of a callback
  result          \* what the function returned, or what it threw

vars == <<modelName, config, env, penv, args, pc, response, fetchCalls,
          callbackCalls, pending, result>>

----------------------------------------------------------------------------
(* JavaScript values *)

Undef == [t |-> "undefined"]
Null == [t |-> "null"]
Absent == [t |-> "absent"]      \* a key an object literal does not emit
Str(s) == [t |-> "string", v |-> s]
Num(n) == [t |-> "number", v |-> n]
Bool(b) == [t |-> "boolean", v |-> b]
Arr(s) == [t |-> "array", items |-> s]

\* ToBoolean: what `||`, `!`, `?:` and `if` test.
Truthy(x) ==
  CASE x.t = "undefined" -> FALSE
    [] x.t = "null" -> FALSE
    [] x.t = "absent" -> FALSE
    [] x.t = "string" -> x.v # <<>>
    [] x.t = "number" -> x.v # 0
    [] x.t = "boolean" -> x.v
    [] OTHER -> TRUE

\* a || b
Or(a, b) == IF Truthy(a) THEN a ELSE b

\* a ?? b
Coalesce(a, b) == IF a = Undef \/ a = Null THEN b ELSE a

\* The pieces of String(x): undefined prints as "undefined", null as "null".
ToStr(x) == IF x.t = "string" THEN x.v ELSE <<x.t>>

\* `prefix${s}`
Template(prefix, s) == Str(<<prefix>> \o ToStr(s))

\* map?.[name] and map[name]: the entry of an environment map named by a
\* string, undefined when the map or the entry is missing.
EnvLookup(map, name) ==
  IF map = Undef THEN Undef
  ELSE IF name.t = "string" /\ Len(name.v) = 1 /\ name.v[1] \in DOMAIN map
       THEN map[name.v[1]]
       ELSE Undef

EnvGet(map, var) == EnvLookup(map, Str(<<var>>))

----------------------------------------------------------------------------
(* DatabricksGenericProvider *)

getApiUrlDefault == Str(<<"https://cloud.databricks.com/v1">>)

\* A faulty variant: the base URL of the configuration is taken before any host.
getApiUrlBaseFirst ==
  Or(config.apiBaseUrl,
     LET apiHost == Or(config.apiHost,
                       Or(EnvGet(env, "DATABRICKS_API_HOST"),
                          EnvGet(penv, "DATABRICKS_API_HOST")))
     IN IF Truthy(apiHost) THEN Template("https://", apiHost)
        ELSE Or(EnvGet(env, "DATABRICKS_API_BASE_URL"),
             Or(EnvGet(env, "DATABRICKS_BASE_URL"),
             Or(EnvGet(penv, "DATABRICKS_API_BASE_URL"),
             Or(EnvGet(penv, "DATABRICKS_BASE_URL"),
                getApiUrlDefault)))))

getApiUrl ==
  LET apiHost == Or(config.apiHost,
                    Or(EnvGet(env, "DATABRICKS_API_HOST"),
                       EnvGet(penv, "DATABRICKS_API_HOST")))
  IN IF Truthy(apiHost) THEN Template("https://", apiHost)
     ELSE Or(config.apiBaseUrl,
          Or(EnvGet(env, "DATABRICKS_API_BASE_URL"),
          Or(EnvGet(env, "DATABRICKS_BASE_URL"),
          Or(EnvGet(penv, "DATABRICKS_API_BASE_URL"),
          Or(EnvGet(penv, "DATABRICKS_BASE_URL"),
             getApiUrlDefault)))))

\* A faulty variant: the variable named by apiKeyEnvar is looked up in the override
\* map before the process environment.
getApiKeyOverrideFirst ==
  Or(config.apiKey,
  Or(IF Truthy(config.apiKeyEnvar)
     THEN Or(EnvLookup(env, config.apiKeyEnvar),
             EnvLookup(penv, config.apiKeyEnvar))
     ELSE Undef,
  Or(EnvGet(env, "DATABRICKS_API_KEY"),
     EnvGet(penv, "DATABRICKS_API_KEY"))))

getApiKey ==
  Or(config.apiKey,
  Or(IF Truthy(config.apiKeyEnvar)
     THEN Or(EnvLookup(penv, config.apiKeyEnvar),
             EnvLookup(env, config.apiKeyEnvar))
     ELSE Undef,
  Or(EnvGet(env, "DATABRICKS_API_KEY"),
     EnvGet(penv, "DATABRICKS_API_KEY"))))

----------------------------------------------------------------------------
(* The static catalog.  A rate is in units of 10^-7 dollars per token:     *)
(* 0.0008 / 1000 is 8, 0.0024 / 1000 is 24.                                *)

DATABRICKS_CHAT_MODELS ==
  << [id |-> Str(<<"databricks-dbrx-instruct">>),
      cost |-> [input |-> 8, output |-> 24]],
     [id |-> Str(<<"databricks-mixtral-8x7b-instruct">>),
      cost |-> [input |-> 5, output |-> 10]],
     [id |-> Str(<<"databricks-meta-llama-3-70b-instruct">>),
      cost |-> [input |-> 9, output |-> 27]] >>

----------------------------------------------------------------------------
(* Reading objects *)

\* o.f of an object: undefined when the field is missing.
Field(o, f) == IF o.t = "object" /\ f \in DOMAIN o THEN o[f] ELSE Undef

\* a[0]
Index0(a) == IF a.t = "array" /\ Len(a.items) >= 1 THEN a.items[1] ELSE Undef

\* Reading a property of undefined or null throws a TypeError.
ReadThrows(o) == o = Undef \/ o = Null

TypeError == [name |-> "TypeError", message |-> "Cannot read properties"]

\* String(err)
String(err) == <<err.name, ": ", err.message>>

\* JSON.stringify(data) and safeJsonStringify(data, true): the text of the body.
JsonText(data) == <<"<json of the response body>">>

----------------------------------------------------------------------------
(* getTokenUsage *)

TokenUsage(total, prompt, completion, cachedTokens) ==
  [t |-> "object", total |-> total, prompt |-> prompt,
   completion |-> completion, cached |-> cachedTokens]

\* A faulty variant: a cache hit reports the per-phase breakdown too.
getTokenUsageBreakdownAlways(data, cached) ==
  LET usage == Field(data, "usage")
  IN IF Truthy(usage)
     THEN IF cached
          THEN TokenUsage(Field(usage, "total_tokens"),
                          Or(Field(usage, "prompt_tokens"), Num(0)),
                          Or(Field(usage, "completion_tokens"), Num(0)),
                          Field(usage, "total_tokens"))
          ELSE TokenUsage(Field(usage, "total_tokens"),
                          Or(Field(usage, "prompt_tokens"), Num(0)),
                          Or(Field(usage, "completion_tokens"), Num(0)),
                          Absent)
     ELSE TokenUsage(Absent, Absent, Absent, Absent)

getTokenUsage(data, cached) ==
  LET usage == Field(data, "usage")
  IN IF Truthy(usage)
     THEN IF cached
          THEN TokenUsage(Field(usage, "total_tokens"), Absent, Absent,
                          Field(usage, "total_tokens"))
          ELSE TokenUsage(Field(usage, "total_tokens"),
                          Or(Field(usage, "prompt_tokens"), Num(0)),
                          Or(Field(usage, "completion_tokens"), Num(0)),
                          Absent)
     ELSE TokenUsage(Absent, Absent, Absent, Absent)

----------------------------------------------------------------------------
(* formatDatabricksError *)

formatDatabricksError(data) ==
  LET error == Field(data, "error")
      type == Field(error, "type")
      code == Field(error, "code")
  IN Str(<<"API error: ">> \o ToStr(Field(error, "message"))
         \o (IF Truthy(type) THEN <<", Type: ">> \o ToStr(type) ELSE <<>>)
         \o (IF Truthy(code) THEN <<", Code: ">> \o ToStr(code) ELSE <<>>)
         \o <<"\n\n">> \o JsonText(data))

----------------------------------------------------------------------------
(* calculateCost *)

\* A faulty variant: the override replaces the input rate only.
calculateCostOverrideInputOnly(name, cfg, promptTokens, completionTokens) ==
  IF ~Truthy(promptTokens) \/ ~Truthy(completionTokens) THEN Undef
  ELSE LET found == {i \in 1..Len(DATABRICKS_CHAT_MODELS) :
                       DATABRICKS_CHAT_MODELS[i].id = name}
       IN IF found = {} THEN Undef
          ELSE LET model == DATABRICKS_CHAT_MODELS[
                              CHOOSE i \in found : \A j \in found : i <= j]
                   inputCost == Coalesce(cfg.cost, Num(model.cost.input))
                   outputCost == Num(model.cost.output)
               IN Or(Num(inputCost.v * promptTokens.v
                         + outputCost.v * completionTokens.v), Undef)

calculateCost(name, cfg, promptTokens, completionTokens) ==
  IF ~Truthy(promptTokens) \/ ~Truthy(completionTokens) THEN Undef
  ELSE LET found == {i \in 1..Len(DATABRICKS_CHAT_MODELS) :
                       DATABRICKS_CHAT_MODELS[i].id = name}
       IN IF found = {} THEN Undef
          ELSE LET model == DATABRICKS_CHAT_MODELS[
                              CHOOSE i \in found : \A j \in found : i <= j]
                   inputCost == Coalesce(cfg.cost, Num(model.cost.input))
                   outputCost == Coalesce(cfg.cost, Num(model.cost.output))
               IN Or(Num(inputCost.v * promptTokens.v
                         + outputCost.v * completionTokens.v), Undef)

----------------------------------------------------------------------------
(* DatabricksChatCompletionProvider.callApi *)

Return(v) == [kind |-> "return", value |-> v]
Throw(e) == [kind |-> "throw", error |-> e]
None == [kind |-> "none"]

\* { error: message }
ErrorResult(message) ==
  [t |-> "object", error |-> message, output |-> Absent, tokenUsage |-> Absent,
   cached |-> Absent, logProbs |-> Absent, cost |-> Absent]

\* { output, tokenUsage, cached, logProbs, cost }
SuccessResult(output, data, cached, logProbs) ==
  [t |-> "object", error |-> Absent, output |-> output,
   tokenUsage |-> getTokenUsage(data, cached),
   cached |-> Bool(cached),
   logProbs |-> logProbs,
   cost |-> calculateCost(modelName, config,
                          Field(Field(data, "usage"), "prompt_tokens"),
                          Field(Field(data, "usage"), "completion_tokens"))]

ApiKeyError == [name |-> "Error", message |-> "Databricks API key is not set"]

\* A faulty variant: a message with content and a call yields the content alone.
SelectOutputContentFirst(message) ==
  LET content == Field(message, "content")
  IN IF content = Null
     THEN Or(Field(message, "function_call"), Field(message, "tool_calls"))
     ELSE content

\* The output chosen from choices[0].message.
SelectOutput(message) ==
  LET content == Field(message, "content")
  IN IF Truthy(content)
        /\ (Truthy(Field(message, "function_call"))
            \/ Truthy(Field(message, "tool_calls")))
     THEN message
     ELSE IF content = Null
          THEN Or(Field(message, "function_call"), Field(message, "tool_calls"))
          ELSE content

\* data.choices[0].logprobs?.content?.map((o) => o.logprob)
LogProbs(choice) ==
  LET logprobs == Field(choice, "logprobs")
      content == IF ReadThrows(logprobs) THEN Undef ELSE Field(logprobs, "content")
  IN IF ReadThrows(content) THEN Undef
     ELSE Arr([i \in 1..Len(content.items) |-> Field(content.items[i], "logprob")])

\* message.function_call ? [message.function_call] : message.tool_calls
FunctionCalls(message) ==
  IF Truthy(Field(message, "function_call"))
  THEN Arr(<<Field(message, "function_call")>>)
  ELSE Field(message, "tool_calls")

\* this.config.functionToolCallbacks[functionName] is there
Registered(callbacks, functionName) ==
  /\ callbacks.t = "object"
  /\ functionName.t = "string"
  /\ functionName.v \in callbacks.names

\* The first call of the loop whose name has a callback, 0 when the loop ends
\* without one.
FirstMatch(callbacks, functionCalls) ==
  LET hits == {i \in 1..Len(functionCalls.items) :
                 Registered(callbacks, Field(functionCalls.items[i], "name"))}
  IN IF hits = {} THEN 0 ELSE CHOOSE i \in hits : \A j \in hits : i <= j

\* The catch of the second try: { error: `API error: ${String(err)}: ${JSON}` }
ParseErrorResult(err, data) ==
  ErrorResult(Str(<<"API error: ">> \o String(err) \o <<": ">> \o JsonText(data)))

\* The second try block up to its first await or its return:
\*   [kind |-> "return", value]  the result returned,
\*   [kind |-> "await", name, argument]  a callback was invoked and is awaited.
ParseResponse(data, cached) ==
  LET choices == Field(data, "choices")
      choice == Index0(choices)
      message == Field(choice, "message")
  IN IF ReadThrows(choices) \/ ReadThrows(choice) \/ ReadThrows(message)
     THEN Return(ParseErrorResult(TypeError, data))
     ELSE
       LET output == SelectOutput(message)
           logProbs == LogProbs(choice)
           functionCalls == FunctionCalls(message)
           callbacks == config.functionToolCallbacks
           hit == IF Truthy(functionCalls) /\ Truthy(callbacks)
                  THEN FirstMatch(callbacks, functionCalls) ELSE 0
       IN IF hit = 0
          THEN Return(SuccessResult(output, data, cached, logProbs))
          ELSE IF ReadThrows(Field(message, "function_call"))
               THEN Return(ParseErrorResult(TypeError, data))
               ELSE [kind |-> "await",
                     name |-> Field(functionCalls.items[hit], "name"),
                     argument |-> Field(Field(message, "function_call"),
                                        "arguments"),
                     logProbs |-> logProbs]

\* The request handed to fetchWithCache.
Request ==
  [url |-> Str(ToStr(getApiUrl) \o <<"/chat/completions">>),
   Authorization |-> Template("Bearer ", getApiKey)]

\* A faulty variant: the request is sent before the key is looked at.
CallApiFetchFirst ==
  /\ pc = "idle"
  /\ fetchCalls' = Append(fetchCalls, Request)
  /\ IF ~Truthy(getApiKey)
     THEN /\ result' = Throw(ApiKeyError)
          /\ pc' = "done"
     ELSE /\ pc' = "fetch"
          /\ UNCHANGED result
  /\ UNCHANGED <<modelName, config, env, penv, args, response, callbackCalls,
                 pending>>

\* callApi up to the await of fetchWithCache.
CallApi ==
  /\ pc = "idle"
  /\ IF ~Truthy(getApiKey)
     THEN /\ result' = Throw(ApiKeyError)
          /\ pc' = "done"
          /\ UNCHANGED fetchCalls
     ELSE /\ fetchCalls' = Append(fetchCalls, Request)
          /\ pc' = "fetch"
          /\ UNCHANGED result
  /\ UNCHANGED <<modelName, config, env, penv, args, response, callbackCalls,
                 pending>>

\* A faulty variant: a transport exception is retried once.
FetchThrowsRetryOnce(errors) ==
  /\ pc = "fetch"
  /\ IF Len(fetchCalls) < 2
     THEN /\ fetchCalls' = Append(fetchCalls, Request)
          /\ pc' = "fetch"
          /\ UNCHANGED result
     ELSE /\ \E err \in errors :
               result' = Return(ErrorResult(Str(<<"API call error: ">>
                                                \o String(err))))
          /\ pc' = "done"
          /\ UNCHANGED fetchCalls
  /\ UNCHANGED <<modelName, config, env, penv, args, response, callbackCalls,
                 pending>>

\* fetchWithCache throws or rejects: the first catch.
FetchThrows(errors) ==
  /\ pc = "fetch"
  /\ \E err \in errors :
       result' = Return(ErrorResult(Str(<<"API call error: ">> \o String(err))))
  /\ pc' = "done"
  /\ UNCHANGED <<modelName, config, env, penv, args, response, fetchCalls,
                 callbackCalls, pending>>

\* fetchWithCache resolves with {data, cached}; callApi runs on to its return,
\* its throw, or the await of a callback.
FetchResolves(responses) ==
  /\ pc = "fetch"
  /\ \E r \in responses :
       /\ response' = r
       /\ IF ReadThrows(r.data)
          THEN /\ result' = Throw(TypeError)
               /\ pc' = "done"
               /\ UNCHANGED <<callbackCalls, pending>>
          ELSE IF Truthy(Field(r.data, "error"))
          THEN /\ result' = Return(ErrorResult(formatDatabricksError(r.data)))
               /\ pc' = "done"
               /\ UNCHANGED <<callbackCalls, pending>>
          ELSE LET p == ParseResponse(r.data, r.cached)
               IN IF p.kind = "return"
                  THEN /\ result' = p
                       /\ pc' = "done"
                       /\ UNCHANGED <<callbackCalls, pending>>
                  ELSE /\ callbackCalls' =
                            Append(callbackCalls,
                                   [name |-> p.name, argument |-> p.argument])
                       /\ pending' = p
                       /\ pc' = "callback"
                       /\ UNCHANGED result
  /\ UNCHANGED <<modelName, config, env, penv, args, fetchCalls>>

\* The awaited callback resolves with a string.
CallbackResolves(strings) ==
  /\ pc = "callback"
  /\ \E functionResult \in strings :
       result' = Return(SuccessResult(functionResult, response.data,
                                      response.cached, pending.logProbs))
  /\ pc' = "done"
  /\ UNCHANGED <<modelName, config, env, penv, args, response, fetchCalls,
                 callbackCalls, pending>>

\* The awaited callback throws or rejects: the catch of the second try.
CallbackThrows(errors) ==
  /\ pc = "callback"
  /\ \E err \in errors : result' = Return(ParseErrorResult(err, response.data))
  /\ pc' = "done"
  /\ UNCHANGED <<modelName, config, env, penv, args, response, fetchCalls,
                 callbackCalls, pending>>

----------------------------------------------------------------------------
(* Applying the pure functions *)

GetApiUrl ==
  /\ pc = "idle"
  /\ result' = Return(getApiUrl)
  /\ pc' = "done"
  /\ UNCHANGED <<modelName, config, env, penv, args, response, fetchCalls,
                 callbackCalls, pending>>

GetApiKey ==
  /\ pc = "idle"
  /\ result' = Return(getApiKey)
  /\ pc' = "done"
  /\ UNCHANGED <<modelName, config, env, penv, args, response, fetchCalls,
                 callbackCalls, pending>>

CalculateCost ==
  /\ pc = "idle"
  /\ result' = Return(calculateCost(modelName, config, args.promptTokens,
                                    args.completionTokens))
  /\ pc' = "done"
  /\ UNCHANGED <<modelName, config, env, penv, args, response, fetchCalls,
                 callbackCalls, pending>>

----------------------------------------------------------------------------
(* Bounds and the inputs drawn *)

MaxToolCalls == 2     \* the longest tool_calls array of a response
MaxTokens == 3        \* token counts run over 0..MaxTokens, and 1000

EnvVars == {"DATABRICKS_API_HOST", "DATABRICKS_API_BASE_URL",
            "DATABRICKS_BASE_URL", "DATABRICKS_API_KEY", "MY_KEY"}

NoEnv == [v \in EnvVars |-> Undef]

\* unset, set to the empty string, or set to s
Opt(s) == {Undef, Str(<<>>), Str(<<s>>)}

Obj(r) == [t |-> "object"] @@ r

NoConfig ==
  [apiKey |-> Undef, apiKeyEnvar |-> Undef, apiHost |-> Undef,
   apiBaseUrl |-> Undef, cost |-> Undef, functionToolCallbacks |-> Undef]

Callbacks(names) == [t |-> "object", names |-> names]

Lookup == <<"lookup">>
Other == <<"other">>

Call(name, arguments) ==
  Obj([name |-> name, arguments |-> arguments, function |-> Undef])

\* function_call of a message
FunctionCallValues ==
  {Undef, Call(Str(Lookup), Str(<<"{fc-lookup}">>)),
          Call(Str(Other), Str(<<"{fc-other}">>))}

\* an element of tool_calls: named at the top, or in the shape
\* {function: {name, arguments}} that carries no name at the top
ToolCallItems ==
  {Call(Str(Lookup), Str(<<"{tc-lookup}">>)),
   Call(Str(Other), Str(<<"{tc-other}">>)),
   Obj([name |-> Undef, arguments |-> Undef,
        function |-> Call(Str(Lookup), Str(<<"{tc-nested}">>))])}

SeqsUpTo(S, n) == UNION {[1..k -> S] : k \in 0..n}

ToolCallsValues == {Undef} \cup {Arr(s) : s \in SeqsUpTo(ToolCallItems, MaxToolCalls)}

ContentValues == {Undef, Null, Str(<<>>), Str(<<"hi">>)}

Messages ==
  {Obj([content |-> c, function_call |-> f, tool_calls |-> tc]) :
     c \in ContentValues, f \in FunctionCallValues, tc \in ToolCallsValues}

LogprobsValues ==
  {Undef,
   Obj([content |-> Null]),
   Obj([content |-> Arr(<<Obj([token |-> Str(<<"h">>), logprob |-> Num(-1)]),
                          Obj([token |-> Str(<<"i">>), logprob |-> Num(-2)])>>)])}

Usage(total, prompt, completion) ==
  Obj([total_tokens |-> total, prompt_tokens |-> prompt,
       completion_tokens |-> completion])

UsageValues ==
  {Undef, Usage(Num(30), Num(10), Num(20)), Usage(Num(30), Undef, Undef),
   Usage(Num(20), Num(0), Num(20))}

Body(error, choices, usage) ==
  Obj([error |-> error, choices |-> choices, usage |-> usage])

Choice(message, logprobs) == Obj([message |-> message, logprobs |-> logprobs])

ErrorValues ==
  {Obj([message |-> Str(<<"bad request">>), type |-> ty, code |-> co]) :
     ty \in {Undef, Str(<<"invalid_request">>)}, co \in {Undef, Str(<<"400">>)}}

PlainChoices == Arr(<<Choice(Obj([content |-> Str(<<"hi">>),
                                  function_call |-> Undef,
                                  tool_calls |-> Undef]), Undef)>>)

ErrorBodies ==
  {Body(e, ch, Undef) : e \in ErrorValues, ch \in {Undef, PlainChoices}}

MalformedBodies ==
  {Body(Undef, ch, u) :
     ch \in {Undef, Null, Arr(<<>>), Arr(<<Choice(Undef, Undef)>>)},
     u \in {Undef, Usage(Num(30), Num(10), Num(20))}}

SuccessBodies ==
  {Body(Undef, Arr(<<Choice(m, lp)>>), u) :
     m \in Messages, lp \in LogprobsValues, u \in UsageValues}

Bodies == {Undef, Null} \cup ErrorBodies \cup MalformedBodies \cup SuccessBodies

Responses == {[data |-> d, cached |-> c] : d \in Bodies, c \in BOOLEAN}

\* what a callback resolves with, and what a callback or the transport throws
CallbackStrings == {Str(<<"42">>)}
CallbackErrors == {[name |-> "Error", message |-> "callback failed"]}
TransportErrors == {[name |-> "Error", message |-> "request timed out"]}

Dbrx == Str(<<"databricks-dbrx-instruct">>)
Unknown == Str(<<"my-own-endpoint">>)

Quiet ==
  /\ args = None
  /\ pc = "idle"
  /\ response = None
  /\ fetchCalls = <<>>
  /\ callbackCalls = <<>>
  /\ pending = None
  /\ result = None

----------------------------------------------------------------------------
(* Spec: one invocation of callApi, over every response of the transport *)

Init ==
  /\ \E m \in {<<Dbrx, Undef>>, <<Dbrx, Num(2)>>, <<Unknown, Undef>>} :
     \E k \in {Undef, Str(<<"k-inline">>)} :
     \E cb \in {Undef, Callbacks({Lookup}), Callbacks({Lookup, Other})} :
       /\ modelName = m[1]
       /\ config = [NoConfig EXCEPT !.apiKey = k, !.cost = m[2],
                                    !.functionToolCallbacks = cb]
  /\ env = Undef
  /\ penv = NoEnv
  /\ Quiet

Next ==
  \/ CallApi
  \/ FetchThrows(TransportErrors)
  \/ FetchResolves(Responses)
  \/ CallbackResolves(CallbackStrings)
  \/ CallbackThrows(CallbackErrors)

Spec == Init /\ [][Next]_vars

----------------------------------------------------------------------------
(* SpecUrl: getApiUrl over every combination of its sources *)

InitUrl ==
  /\ modelName = Dbrx
  /\ \E h \in Opt("cfg.host"), b \in Opt("https://cfg.base/v1") :
       config = [NoConfig EXCEPT !.apiHost = h, !.apiBaseUrl = b]
  /\ env \in {Undef} \cup
       {[NoEnv EXCEPT !["DATABRICKS_API_HOST"] = h,
                      !["DATABRICKS_API_BASE_URL"] = b1,
                      !["DATABRICKS_BASE_URL"] = b2] :
          h \in Opt("env.host"), b1 \in Opt("https://env.api.base/v1"),
          b2 \in Opt("https://env.base/v1")}
  /\ penv \in
       {[NoEnv EXCEPT !["DATABRICKS_API_HOST"] = h,
                      !["DATABRICKS_API_BASE_URL"] = b1,
                      !["DATABRICKS_BASE_URL"] = b2] :
          h \in Opt("penv.host"), b1 \in Opt("https://penv.api.base/v1"),
          b2 \in Opt("https://penv.base/v1")}
  /\ Quiet

NextUrl == GetApiUrl

SpecUrl == InitUrl /\ [][NextUrl]_vars

----------------------------------------------------------------------------
(* SpecKey: getApiKey over every combination of its sources *)

KeyEnvs(named, default) ==
  {[NoEnv EXCEPT !["MY_KEY"] = n, !["DATABRICKS_API_KEY"] = d] :
     n \in Opt(named), d \in Opt(default)}

InitKeySources ==
  /\ modelName = Dbrx
  /\ \E k \in Opt("k-inline"), e \in {Undef, Str(<<"MY_KEY">>)} :
       config = [NoConfig EXCEPT !.apiKey = k, !.apiKeyEnvar = e,
                                 !.functionToolCallbacks = Callbacks({Lookup})]
  /\ env \in {Undef} \cup KeyEnvs("k-env-named", "k-env")
  /\ penv \in KeyEnvs("k-penv-named", "k-penv")
  /\ Quiet

NextKey == GetApiKey

SpecKey == InitKeySources /\ [][NextKey]_vars

----------------------------------------------------------------------------
(* SpecKeyCheck: callApi over every combination of the key sources *)

FewResponses ==
  {[data |-> d, cached |-> FALSE] :
     d \in {Body(Undef, PlainChoices, Undef),
            Body(Obj([message |-> Str(<<"bad request">>), type |-> Undef,
                      code |-> Undef]), Undef, Undef),
            Body(Undef,
                 Arr(<<Choice(Obj([content |-> Null,
                                   function_call |->
                                     Call(Str(Lookup), Str(<<"{fc-lookup}">>)),
                                   tool_calls |-> Undef]), Undef)>>),
                 Undef)}}

NextKeyCheck ==
  \/ CallApi
  \/ FetchThrows(TransportErrors)
  \/ FetchResolves(FewResponses)
  \/ CallbackResolves(CallbackStrings)
  \/ CallbackThrows(CallbackErrors)

SpecKeyCheck == InitKeySources /\ [][NextKeyCheck]_vars

----------------------------------------------------------------------------
(* SpecCost: calculateCost over models, overrides and token counts *)

TokenCounts == {Undef} \cup {Num(n) : n \in 0..MaxTokens} \cup {Num(1000)}

InitCost ==
  /\ modelName \in {DATABRICKS_CHAT_MODELS[i].id :
                      i \in 1..Len(DATABRICKS_CHAT_MODELS)} \cup {Unknown}
  /\ \E c \in {Undef, Num(0), Num(2)} : config = [NoConfig EXCEPT !.cost = c]
  /\ env = Undef
  /\ penv = NoEnv
  /\ args \in [promptTokens : TokenCounts, completionTokens : TokenCounts]
  /\ pc = "idle"
  /\ response = None
  /\ fetchCalls = <<>>
  /\ callbackCalls = <<>>
  /\ pending = None
  /\ result = None

NextCost == CalculateCost

SpecCost == InitCost /\ [][NextCost]_vars

----------------------------------------------------------------------------
(* What the claims speak of *)

Done == pc = "done"
Returned == Done /\ result.kind = "return"
Threw == Done /\ result.kind = "throw"

\* A field of a result holds a value.
Populated(x) == x # Absent /\ x # Undef /\ x # Null

IsSuccess == Returned /\ result.value.error = Absent
IsError == Returned /\ result.value.error # Absent

\* A source is available when it is set to a non-empty string.
Available(x) == x.t = "string" /\ x.v # <<>>

\* The first available of a sequence of sources, 0 when there is none.
FirstAvailable(sources) ==
  LET avail == {i \in 1..Len(sources) : Available(sources[i])}
  IN IF avail = {} THEN 0 ELSE CHOOSE i \in avail : \A j \in avail : i <= j

EnvAt(map, var) == IF map = Undef THEN Undef ELSE map[var]

----------------------------------------------------------------------------
(* C5: getApiUrl *)

\* C5 as stated: getApiUrl returns the first available of https://{config.apiHost},
\* config.apiBaseUrl, the override map's base URL, the process environment's
\* base URL and the hard-coded default.
C5_FiveSources ==
  Returned =>
    LET sources == <<config.apiHost, config.apiBaseUrl,
                     EnvAt(env, "DATABRICKS_API_BASE_URL"),
                     EnvAt(env, "DATABRICKS_BASE_URL"),
                     EnvAt(penv, "DATABRICKS_API_BASE_URL"),
                     EnvAt(penv, "DATABRICKS_BASE_URL")>>
        first == FirstAvailable(sources)
    IN result.value =
         IF first = 0 THEN Str(<<"https://cloud.databricks.com/v1">>)
         ELSE IF first = 1 THEN Str(<<"https://">> \o config.apiHost.v)
         ELSE sources[first]

\* C5 amended: getApiUrl returns https://{host} for the first available host
\* among config.apiHost, the override map's DATABRICKS_API_HOST and the process
\* environment's DATABRICKS_API_HOST; with no host, the first available of
\* config.apiBaseUrl, the override map's DATABRICKS_API_BASE_URL and
\* DATABRICKS_BASE_URL, the process environment's DATABRICKS_API_BASE_URL and
\* DATABRICKS_BASE_URL; with none of them, https://cloud.databricks.com/v1.
C5_HostsThenBaseUrls ==
  Returned =>
    LET hosts == <<config.apiHost, EnvAt(env, "DATABRICKS_API_HOST"),
                   EnvAt(penv, "DATABRICKS_API_HOST")>>
        bases == <<config.apiBaseUrl,
                   EnvAt(env, "DATABRICKS_API_BASE_URL"),
                   EnvAt(env, "DATABRICKS_BASE_URL"),
                   EnvAt(penv, "DATABRICKS_API_BASE_URL"),
                   EnvAt(penv, "DATABRICKS_BASE_URL")>>
        h == FirstAvailable(hosts)
        b == FirstAvailable(bases)
    IN result.value =
         IF h # 0 THEN Str(<<"https://">> \o hosts[h].v)
         ELSE IF b # 0 THEN bases[b]
         ELSE Str(<<"https://cloud.databricks.com/v1">>)

\* The override map's host wins over the base URL of the configuration.
C5_Witness ==
  /\ Returned
  /\ ~Available(config.apiHost)
  /\ Available(config.apiBaseUrl)
  /\ Available(EnvAt(env, "DATABRICKS_API_HOST"))
  /\ result.value = Str(<<"https://", "env.host">>)

----------------------------------------------------------------------------
(* C7: getApiKey *)

KeySources ==
  <<config.apiKey,
    IF Available(config.apiKeyEnvar) THEN EnvAt(penv, config.apiKeyEnvar.v[1])
    ELSE Undef,
    IF Available(config.apiKeyEnvar) THEN EnvAt(env, config.apiKeyEnvar.v[1])
    ELSE Undef,
    EnvAt(env, "DATABRICKS_API_KEY"),
    EnvAt(penv, "DATABRICKS_API_KEY")>>

\* C7 as stated: getApiKey returns the first available of config.apiKey, the
\* variable named by config.apiKeyEnvar in the process environment and then in
\* the override map, the override map's DATABRICKS_API_KEY and the process
\* environment's DATABRICKS_API_KEY, and undefined when none is available.
C7_UndefinedWhenNone ==
  Returned =>
    LET first == FirstAvailable(KeySources)
    IN result.value = IF first = 0 THEN Undef ELSE KeySources[first]

\* C7 amended: the same order over the sources set to a non-empty string; when
\* none is, the result is what the process environment holds under
\* DATABRICKS_API_KEY: undefined when unset, the empty string when set empty.
C7_FirstAvailableKey ==
  Returned =>
    LET first == FirstAvailable(KeySources)
    IN /\ first # 0 => result.value = KeySources[first]
       /\ first = 0 =>
            /\ result.value \in {Undef, Str(<<>>)}
            /\ result.value = Undef <=> penv["DATABRICKS_API_KEY"] = Undef

\* The named variable is set in both maps and the process environment's wins.
C7_Witness ==
  /\ Returned
  /\ ~Available(config.apiKey)
  /\ Available(config.apiKeyEnvar)
  /\ Available(EnvAt(env, "MY_KEY"))
  /\ Available(penv["MY_KEY"])
  /\ result.value = Str(<<"k-penv-named">>)

----------------------------------------------------------------------------
(* C4: the missing API key *)

NoKeyResolvable == FirstAvailable(KeySources) = 0

\* C4: with no API key resolvable, callApi throws the configuration error in
\* its first step and fetchWithCache is never called.
C4_NoKeyNoFetch ==
  NoKeyResolvable =>
    /\ fetchCalls = <<>>
    /\ pc \in {"idle", "done"}
    /\ Done => result = Throw(ApiKeyError)

\* The key sources hold only empty strings and the invocation has thrown.
C4_Witness ==
  /\ NoKeyResolvable
  /\ Available(config.apiKeyEnvar)
  /\ penv["DATABRICKS_API_KEY"] = Str(<<>>)
  /\ Threw
  /\ result.error = ApiKeyError
  /\ fetchCalls = <<>>

----------------------------------------------------------------------------
(* C8: calculateCost *)

\* C8: calculateCost is undefined for a model outside the catalog, for a prompt
\* or completion count that is missing or zero, and for a computed value of
\* zero; otherwise it is inputRate * promptTokens + outputRate *
\* completionTokens, both rates being config.cost when set, the catalog's
\* otherwise (dbrx, 1000 and 1000 tokens: 0.0008 + 0.0024, 32000 units).
C8_Cost ==
  Returned =>
    LET p == args.promptTokens
        c == args.completionTokens
        entries == {i \in 1..Len(DATABRICKS_CHAT_MODELS) :
                      DATABRICKS_CHAT_MODELS[i].id = modelName}
    IN IF entries = {} \/ p \in {Undef, Num(0)} \/ c \in {Undef, Num(0)}
       THEN result.value = Undef
       ELSE \A i \in entries :
              LET inputRate == IF config.cost # Undef THEN config.cost.v
                               ELSE DATABRICKS_CHAT_MODELS[i].cost.input
                  outputRate == IF config.cost # Undef THEN config.cost.v
                                ELSE DATABRICKS_CHAT_MODELS[i].cost.output
                  value == inputRate * p.v + outputRate * c.v
              IN /\ value = 0 => result.value = Undef
                 /\ value # 0 => result.value = Num(value)
                 /\ (modelName = Dbrx /\ config.cost = Undef
                     /\ p = Num(1000) /\ c = Num(1000))
                      => result.value = Num(8 * 1000 + 24 * 1000)

\* dbrx with 1000 prompt and 1000 completion tokens and no override.
C8_Witness ==
  /\ Returned
  /\ modelName = Dbrx
  /\ config.cost = Undef
  /\ args.promptTokens = Num(1000)
  /\ args.completionTokens = Num(1000)
  /\ result.value = Num(32000)

----------------------------------------------------------------------------
(* The response an invocation got, as the claims name its parts *)

GotBody == response # None /\ response.data.t = "object"

TheMessage == response.data.choices.items[1].message

\* The body carries no error object and a first choice with a message.
GotMessage ==
  /\ GotBody
  /\ response.data.error = Undef
  /\ response.data.choices.t = "array"
  /\ Len(response.data.choices.items) >= 1
  /\ response.data.choices.items[1].t = "object"
  /\ response.data.choices.items[1].message.t = "object"

\* The calls of the message in the order received.
TheCalls ==
  IF TheMessage.function_call # Undef THEN <<TheMessage.function_call>>
  ELSE IF TheMessage.tool_calls # Undef THEN TheMessage.tool_calls.items
  ELSE <<>>

\* The calls a callback is registered for.
Matches ==
  IF config.functionToolCallbacks = Undef THEN {}
  ELSE {i \in 1..Len(TheCalls) :
          /\ TheCalls[i].name # Undef
          /\ TheCalls[i].name.v \in config.functionToolCallbacks.names}

----------------------------------------------------------------------------
(* C1: exactly one of output and error *)

\* C1: every result callApi returns has exactly one of output and error
\* populated.
C1_ExactlyOne ==
  Returned =>
    (Populated(result.value.output) <=> ~Populated(result.value.error))

----------------------------------------------------------------------------
(* C2: nothing but the configuration error is thrown *)

\* C2: once the API key check has passed callApi never throws; the only
\* exception that leaves callApi is the missing-API-key error.
C2_NeverThrows ==
  Threw => (NoKeyResolvable /\ result.error = ApiKeyError)

----------------------------------------------------------------------------
(* C3: the function-tool callback *)

\* C3: when the message carries calls and a callback is registered for one of
\* them, exactly the first matching callback is invoked, once, with the
\* argument string of that call, and the result is a success whose output is
\* the string the callback returned (the catch's error result when the
\* callback threw), with tokenUsage, cost and logProbs of the response.
C3_FirstMatchingCallback ==
  (Done /\ GotMessage /\ Matches # {}) =>
    LET first == CHOOSE i \in Matches : \A j \in Matches : i <= j
    IN /\ callbackCalls = <<[name |-> TheCalls[first].name,
                             argument |-> TheCalls[first].arguments]>>
       /\ \/ /\ IsSuccess
             /\ result.value.output \in CallbackStrings
             /\ result.value.tokenUsage
                  = getTokenUsage(response.data, response.cached)
             /\ result.value.logProbs
                  = LogProbs(response.data.choices.items[1])
             /\ result.value.cost
                  = calculateCost(modelName, config,
                                  Field(Field(response.data, "usage"),
                                        "prompt_tokens"),
                                  Field(Field(response.data, "usage"),
                                        "completion_tokens"))
          \/ \E err \in CallbackErrors :
               result = Return(ParseErrorResult(err, response.data))

----------------------------------------------------------------------------
(* C6: the output chosen from the message *)

\* C6: on a body without an error object and with no callback invoked, the
\* output is (1) the whole message when it has textual content and a
\* function_call or tool_calls, (2) else, when content is null, the
\* function_call, or the tool_calls when there is no function_call, (3)
\* otherwise the content.
C6_OutputOrder ==
  (IsSuccess /\ callbackCalls = <<>>) =>
    LET m == TheMessage
        hasCall == m.function_call # Undef \/ m.tool_calls # Undef
    IN result.value.output =
         IF Available(m.content) /\ hasCall THEN m
         ELSE IF m.content = Null
              THEN IF m.function_call # Undef THEN m.function_call
                   ELSE m.tool_calls
              ELSE m.content

\* Content "hi" with tool calls: the output is the whole message.
C6_Witness ==
  /\ IsSuccess
  /\ callbackCalls = <<>>
  /\ TheMessage.content = Str(<<"hi">>)
  /\ TheMessage.function_call = Undef
  /\ TheMessage.tool_calls # Undef
  /\ Len(TheMessage.tool_calls.items) >= 1
  /\ result.value.output = TheMessage

----------------------------------------------------------------------------
(* C9: token usage *)

\* C9: the tokenUsage of a success result is {cached: total_tokens, total:
\* total_tokens} and nothing else on a cache hit, {total: total_tokens, prompt:
\* prompt_tokens or 0, completion: completion_tokens or 0} on a fresh call, and
\* has no field when the response has no usage object.
C9_TokenUsage ==
  IsSuccess =>
    LET usage == response.data.usage
        got == result.value.tokenUsage
        orZero(x) == IF x = Undef \/ x = Num(0) THEN Num(0) ELSE x
    IN IF usage = Undef
       THEN /\ got.total = Absent /\ got.cached = Absent
            /\ got.prompt = Absent /\ got.completion = Absent
       ELSE IF response.cached
       THEN /\ got.cached = usage.total_tokens
            /\ got.total = usage.total_tokens
            /\ got.prompt = Absent /\ got.completion = Absent
       ELSE /\ got.total = usage.total_tokens
            /\ got.prompt = orZero(usage.prompt_tokens)
            /\ got.completion = orZero(usage.completion_tokens)
            /\ got.cached = Absent

\* A cache hit with total_tokens 30: {cached: 30, total: 30}.
C9_Witness ==
  /\ IsSuccess
  /\ response.cached
  /\ response.data.usage = Usage(Num(30), Num(10), Num(20))
  /\ result.value.tokenUsage = TokenUsage(Num(30), Absent, Absent, Num(30))

----------------------------------------------------------------------------
(* C10: one transport call *)

\* C10: an invocation calls fetchWithCache at most once; a transport exception
\* ends it with an error result, and so does a body with an error object, also
\* when the body carries choices.
C10_OneFetch ==
  /\ Len(fetchCalls) <= 1
  /\ (Done /\ fetchCalls # <<>> /\ response = None) =>
       /\ IsError
       /\ SubSeq(result.value.error.v, 1, 1) = <<"API call error: ">>
  /\ (Done /\ GotBody /\ response.data.error # Undef) =>
       /\ IsError
       /\ result.value.output = Absent
       /\ SubSeq(result.value.error.v, 1, 2)
            = <<"API error: ">> \o response.data.error.message.v

\* An error object beside choices: one call was made and the error returned.
C10_Witness ==
  /\ Done
  /\ GotBody
  /\ response.data.error # Undef
  /\ response.data.choices # Undef
  /\ Len(fetchCalls) = 1
  /\ IsError

====
